---- MODULE Spec2Model ----
(***************************************************************************)
(* Model of backend/app/services/neo4j_service.py: the Neo4jService facade *)
(* over a property graph holding User nodes, Post nodes, FOLLOWS and       *)
(* POSTED relationships.  Every Cypher query of the service is one atomic  *)
(* step on the graph (one query, one auto-commit transaction).             *)
(***************************************************************************)
EXTENDS Integers, Sequences, FiniteSets

(***************************************************************************)
(* Bounds of the model: how many User and Post nodes the graph may hold.   *)
(***************************************************************************)
MaxNodes == 2
MaxPosts == 2

NodeIdx == 1..MaxNodes

(***************************************************************************)
(* Input alphabets.  A string is a sequence of characters, so that toLower *)
(* is computed character by character as Cypher does.  createdAt is a      *)
(* string too, and Cypher orders strings lexicographically: "12" < "2".    *)
(***************************************************************************)
Ids == {"u1", "u2", "u3"}
NoSuchId == "u9"
Usernames == {<<"a", "b">>, <<"A", "B">>, <<"b", "_">>, <<"a", "_">>}
Timestamps == {<<1, 2>>, <<2>>}
Callers == {"c1", "c2"}

VARIABLES nodes, follows, posts, last, calls

vars == <<nodes, follows, posts, last, calls>>
store == <<nodes, follows, posts>>

(***************************************************************************)
(* The records the service returns.                                        *)
(***************************************************************************)
UserProfile(id, name, username, email, bio, avatar) ==
    [id |-> id, name |-> name, username |-> username, email |-> email,
     bio |-> bio, avatar |-> avatar]

FeedPostAuthor(id, name, username) ==
    [id |-> id, name |-> name, username |-> username]

FeedPost(id, content, createdAt, author) ==
    [id |-> id, content |-> content, createdAt |-> createdAt, author |-> author]

(***************************************************************************)
(* Cypher's toLower, on the characters the alphabets use.                  *)
(***************************************************************************)
LowerChar(c) ==
    CASE c = "A" -> "a"
      [] c = "B" -> "b"
      [] OTHER -> c

toLower(s) == [i \in DOMAIN s |-> LowerChar(s[i])]

(***************************************************************************)
(* Cypher's ordering of two strings: lexicographic, a proper prefix first. *)
(***************************************************************************)
RECURSIVE StrLess(_, _)
StrLess(a, b) ==
    IF a = <<>> THEN b # <<>>
    ELSE IF b = <<>> THEN FALSE
    ELSE IF Head(a) # Head(b) THEN Head(a) < Head(b)
    ELSE StrLess(Tail(a), Tail(b))

(***************************************************************************)
(* How a call ends: what it raised ("" when it returned) and its value.    *)
(***************************************************************************)
Returned(raised, ret) == [raised |-> raised, ret |-> ret]

(***************************************************************************)
(* MATCH (u:User {id: $user_id}): every node carrying the id.              *)
(***************************************************************************)
MatchUser(user_id) == {i \in DOMAIN nodes : nodes[i].id = user_id}

Profile(i) ==
    UserProfile(nodes[i].id, nodes[i].name, nodes[i].username, nodes[i].email,
                nodes[i].bio, nodes[i].avatar)

(***************************************************************************)
(* What the latest call was and how it ended: what it raised ("" when it   *)
(* returned) and the records it returned.  The service holds no state of   *)
(* its own: its operations change the graph and nothing else.              *)
(***************************************************************************)
Call(op, user_id, target_id, args, raised, ret) ==
    [op |-> op, user_id |-> user_id, target_id |-> target_id, args |-> args,
     raised |-> raised, ret |-> ret]

NoArgs == <<>>

(***************************************************************************)
(* The store's schema is not part of the service: the specification has a  *)
(* duplicate id rejected by a uniqueness constraint of the store.          *)
(***************************************************************************)
(* A store with no constraint declared on User.id. *)
IdConstraint_NotDeclared(id) == FALSE

IdConstraintViolated(id) == MatchUser(id) # {}

(***************************************************************************)
(* create_user: CREATE (u:User {...}) with all six fields.  The store's    *)
(* error, if any, is raised to the caller unchanged.                       *)
(***************************************************************************)
create_user(profile) ==
    /\ IF IdConstraintViolated(profile.id)
       THEN /\ last' = Call("create_user", profile.id, "", <<profile>>,
                            "ConstraintError", <<>>)
            /\ UNCHANGED nodes
       ELSE /\ Len(nodes) < MaxNodes
            /\ nodes' = Append(nodes, profile)
            /\ last' = Call("create_user", profile.id, "", <<profile>>, "", <<>>)
    /\ UNCHANGED <<follows, posts>>

(***************************************************************************)
(* get_user_by_id: MATCH (u:User {id}) RETURN u, then result.single():     *)
(* None when there is no record, else the first record.                    *)
(***************************************************************************)
Single(matched) ==
    IF matched = {} THEN <<>>
    ELSE <<CHOOSE i \in matched : \A j \in matched : i <= j>>

(* The missing record reported as an error, as update_user does. *)
get_user_by_id_RaisesOnMissing(user_id) ==
    LET record == Single(MatchUser(user_id))
    IN IF record = <<>> THEN Returned("ValueError", <<>>)
       ELSE Returned("", <<Profile(record[1])>>)

get_user_by_id(user_id) ==
    LET record == Single(MatchUser(user_id))
    IN IF record = <<>> THEN Returned("", <<>>)
       ELSE Returned("", <<Profile(record[1])>>)

(***************************************************************************)
(* is_username_available: count(u) WHERE toLower(u.username) =             *)
(* toLower($username), and the answer is count == 0.                       *)
(***************************************************************************)
(* The count with the usernames compared as stored, without toLower. *)
is_username_available_CaseSensitive(username) ==
    Cardinality({i \in DOMAIN nodes : nodes[i].username = username}) = 0

is_username_available(username) ==
    Cardinality({i \in DOMAIN nodes :
                   toLower(nodes[i].username) = toLower(username)}) = 0

(***************************************************************************)
(* is_username_available_for_user: the same count, AND u.id <> $id.        *)
(***************************************************************************)
(* The count with the usernames compared as stored, without toLower. *)
is_username_available_for_user_CaseSensitive(username, current_user_id) ==
    Cardinality({i \in DOMAIN nodes :
                   /\ nodes[i].username = username
                   /\ nodes[i].id # current_user_id}) = 0

(* The count without the exclusion of the caller's own node. *)
is_username_available_for_user_CountsOwner(username, current_user_id) ==
    Cardinality({i \in DOMAIN nodes :
                   toLower(nodes[i].username) = toLower(username)}) = 0

is_username_available_for_user(username, current_user_id) ==
    Cardinality({i \in DOMAIN nodes :
                   /\ toLower(nodes[i].username) = toLower(username)
                   /\ nodes[i].id # current_user_id}) = 0

(***************************************************************************)
(* update_user: MATCH (u:User {id}) SET the four fields RETURN u; then     *)
(* result.single(): None raises ValueError("User not found"), otherwise    *)
(* the record is returned as a UserProfile.                                *)
(***************************************************************************)
(* SET without u.username. *)
SetFields_KeepsUsername(n, name, username, bio, avatar) ==
    [n EXCEPT !.name = name, !.bio = bio, !.avatar = avatar]

(* SET without u.avatar. *)
SetFields_SkipsAvatar(n, name, username, bio, avatar) ==
    [n EXCEPT !.name = name, !.username = username, !.bio = bio]

SetFields(n, name, username, bio, avatar) ==
    [n EXCEPT !.name = name, !.username = username, !.bio = bio, !.avatar = avatar]

(* MERGE in place of MATCH: the node is created when it is missing. *)
update_user_Upsert(user_id, name, username, bio, avatar) ==
    LET record == UserProfile(user_id, name, username, "", bio, avatar)
        args == <<name, username, bio, avatar>>
    IN /\ Len(nodes) < MaxNodes
       /\ nodes' = IF MatchUser(user_id) = {} THEN Append(nodes, record)
                   ELSE [i \in DOMAIN nodes |->
                           IF i \in MatchUser(user_id)
                           THEN SetFields(nodes[i], name, username, bio, avatar)
                           ELSE nodes[i]]
       /\ last' = Call("update_user", user_id, "", args, "", <<record>>)
       /\ UNCHANGED <<follows, posts>>

(* MATCH (u:User) without the id: the SET reaches every node. *)
update_user_AllUsers(user_id, name, username, bio, avatar) ==
    LET args == <<name, username, bio, avatar>>
        updated == [i \in DOMAIN nodes |->
                      SetFields(nodes[i], name, username, bio, avatar)]
        record == Single(MatchUser(user_id))
    IN /\ nodes' = updated
       /\ IF record = <<>>
          THEN last' = Call("update_user", user_id, "", args, "ValueError", <<>>)
          ELSE last' = Call("update_user", user_id, "", args, "",
                            <<updated[record[1]]>>)
       /\ UNCHANGED <<follows, posts>>

update_user(user_id, name, username, bio, avatar) ==
    LET matched == MatchUser(user_id)
        args == <<name, username, bio, avatar>>
        updated == [i \in DOMAIN nodes |->
                      IF i \in matched
                      THEN SetFields(nodes[i], name, username, bio, avatar)
                      ELSE nodes[i]]
        record == Single(matched)
    IN /\ nodes' = updated
       /\ IF record = <<>>
          THEN last' = Call("update_user", user_id, "", args, "ValueError", <<>>)
          ELSE last' = Call("update_user", user_id, "", args, "",
                            <<UserProfile(updated[record[1]].id,
                                          updated[record[1]].name,
                                          updated[record[1]].username,
                                          updated[record[1]].email,
                                          updated[record[1]].bio,
                                          updated[record[1]].avatar)>>)
       /\ UNCHANGED <<follows, posts>>

(***************************************************************************)
(* follow_user: MATCH (u {id}), (t {id}) MERGE (u)-[:FOLLOWS]->(t).  One   *)
(* row per pair of matching nodes; MERGE creates the relationship only     *)
(* where none exists.  No row, no effect, no error.                        *)
(***************************************************************************)
(* CREATE in place of MERGE. *)
Merge_AlwaysCreates(n) == n + 1

Merge(n) == IF n = 0 THEN 1 ELSE n

(* A missing end of the edge reported as an error, as update_user does. *)
follow_user_RaisesOnMissing(user_id, target_id) ==
    /\ follows' = [e \in DOMAIN follows |->
                     IF e[1] \in MatchUser(user_id) /\ e[2] \in MatchUser(target_id)
                     THEN Merge(follows[e])
                     ELSE follows[e]]
    /\ last' = Call("follow_user", user_id, target_id, NoArgs,
                    IF MatchUser(user_id) = {} \/ MatchUser(target_id) = {}
                    THEN "ValueError" ELSE "",
                    <<>>)
    /\ UNCHANGED <<nodes, posts>>

follow_user(user_id, target_id) ==
    /\ follows' = [e \in DOMAIN follows |->
                     IF e[1] \in MatchUser(user_id) /\ e[2] \in MatchUser(target_id)
                     THEN Merge(follows[e])
                     ELSE follows[e]]
    /\ last' = Call("follow_user", user_id, target_id, NoArgs, "", <<>>)
    /\ UNCHANGED <<nodes, posts>>

(***************************************************************************)
(* unfollow_user: MATCH (u {id})-[f:FOLLOWS]->(t {id}) DELETE f: every     *)
(* matched relationship goes.                                              *)
(***************************************************************************)
(* The relationship is matched and not deleted. *)
Delete_Nothing(n) == n

Delete(n) == 0

(* The pattern without its arrow head: (u {id})-[f:FOLLOWS]-(t {id}). *)
unfollow_user_EitherDirection(user_id, target_id) ==
    /\ follows' = [e \in DOMAIN follows |->
                     IF \/ e[1] \in MatchUser(user_id) /\ e[2] \in MatchUser(target_id)
                        \/ e[2] \in MatchUser(user_id) /\ e[1] \in MatchUser(target_id)
                     THEN Delete(follows[e])
                     ELSE follows[e]]
    /\ last' = Call("unfollow_user", user_id, target_id, NoArgs, "", <<>>)
    /\ UNCHANGED <<nodes, posts>>

unfollow_user(user_id, target_id) ==
    /\ follows' = [e \in DOMAIN follows |->
                     IF e[1] \in MatchUser(user_id) /\ e[2] \in MatchUser(target_id)
                     THEN Delete(follows[e])
                     ELSE follows[e]]
    /\ last' = Call("unfollow_user", user_id, target_id, NoArgs, "", <<>>)
    /\ UNCHANGED <<nodes, posts>>

(***************************************************************************)
(* get_following: MATCH (u:User {id})-[:FOLLOWS]->(f:User) RETURN f, one   *)
(* row per relationship, in no defined order.                              *)
(***************************************************************************)
FollowsRows(from, to) ==
    UNION {{<<u, f, k>> : k \in 1..follows[<<u, f>>]} :
             u \in from, f \in to}

(***************************************************************************)
(* The list built from the rows, one UserProfile per row from the row's    *)
(* node in the given column.  Cypher leaves the order of the rows open, so *)
(* the list is kept as the bag of its items: each record with the number   *)
(* of times it is returned.                                                *)
(***************************************************************************)
ProfilesOf(rows, column) ==
    [x \in {Profile(r[column]) : r \in rows} |->
        Cardinality({r \in rows : Profile(r[column]) = x})]

get_following(user_id) ==
    Returned("", ProfilesOf(FollowsRows(MatchUser(user_id), DOMAIN nodes), 2))

(***************************************************************************)
(* get_followers: MATCH (f:User)-[:FOLLOWS]->(u:User {id}) RETURN f.       *)
(***************************************************************************)
(* The pattern with the arrow turned round: (u {id})-[:FOLLOWS]->(f). *)
get_followers_ArrowReversed(user_id) ==
    Returned("", ProfilesOf(FollowsRows(MatchUser(user_id), DOMAIN nodes), 2))

get_followers(user_id) ==
    Returned("", ProfilesOf(FollowsRows(DOMAIN nodes, MatchUser(user_id)), 1))

(***************************************************************************)
(* get_mutual_connections: the query text is built but never handed to     *)
(* session.run, which is called with the two parameters only; run's first  *)
(* positional parameter, the query, is missing and Python raises TypeError *)
(* before anything reaches the store.                                      *)
(***************************************************************************)
get_mutual_connections(user1, user2) ==
    Returned("TypeError", <<>>)

(***************************************************************************)
(* get_all_users_except: MATCH (u:User) WHERE u.id <> $user_id RETURN u    *)
(* ORDER BY u.username.  Cypher orders strings by the code points of their *)
(* characters, so every upper-case letter sorts before "_" and "_" before  *)
(* every lower-case letter.  Rows with equal username may come in any      *)
(* order, so the call has a set of possible results.                       *)
(***************************************************************************)
CodePoint(c) ==
    CASE c = "A" -> 65
      [] c = "B" -> 66
      [] c = "_" -> 95
      [] c = "a" -> 97
      [] c = "b" -> 98

RECURSIVE UsernameLess(_, _)
UsernameLess(a, b) ==
    IF a = <<>> THEN b # <<>>
    ELSE IF b = <<>> THEN FALSE
    ELSE IF Head(a) # Head(b) THEN CodePoint(Head(a)) < CodePoint(Head(b))
    ELSE UsernameLess(Tail(a), Tail(b))

(* The MATCH without its WHERE. *)
OtherUsers_All(user_id) == DOMAIN nodes

OtherUsers(user_id) == {i \in DOMAIN nodes : nodes[i].id # user_id}

UsersFirst(rows) ==
    {r \in rows : \A q \in rows :
        ~UsernameLess(nodes[q].username, nodes[r].username)}

RECURSIVE OrderByUsername(_)
OrderByUsername(rows) ==
    IF rows = {} THEN {<<>>}
    ELSE UNION {{<<r>> \o s : s \in OrderByUsername(rows \ {r})} :
                  r \in UsersFirst(rows)}

get_all_users_except(user_id) ==
    {[i \in DOMAIN s |-> Profile(s[i])] :
        s \in OrderByUsername(OtherUsers(user_id))}

(***************************************************************************)
(* get_profile, the route GET /api/profile/{user_id}.  It awaits           *)
(* get_user_by_id inside a try: the call raises what session.run raises    *)
(* when the store does not answer, and returns as above when it does.  Any *)
(* exception becomes HTTPException(500); after the try, None becomes       *)
(* HTTPException(404); otherwise the answer is a ProfileResponse of five   *)
(* of the profile's six fields.                                            *)
(***************************************************************************)
StoreOutcomes == {"", "ServiceUnavailable"}

await_get_user_by_id(user_id, store_raised) ==
    IF store_raised # "" THEN Returned(store_raised, <<>>)
    ELSE get_user_by_id(user_id)

ProfileResponse(id, name, username, email, bio) ==
    [id |-> id, name |-> name, username |-> username, email |-> email, bio |-> bio]

HTTPException(status_code, detail) ==
    Returned("HTTPException", <<[status_code |-> status_code, detail |-> detail]>>)

(* The None test inside the try: its HTTPException is caught as well. *)
get_profile_OneTryBlock(user_id, store_raised) ==
    LET profile == await_get_user_by_id(user_id, store_raised)
    IN IF profile.raised # "" \/ profile.ret = <<>>
       THEN HTTPException(500, "Failed to retrieve profile")
       ELSE Returned("", <<ProfileResponse(profile.ret[1].id, profile.ret[1].name,
                                           profile.ret[1].username,
                                           profile.ret[1].email,
                                           profile.ret[1].bio)>>)

get_profile(user_id, store_raised) ==
    LET profile == await_get_user_by_id(user_id, store_raised)
    IN IF profile.raised # ""
       THEN HTTPException(500, "Failed to retrieve profile")
       ELSE IF profile.ret = <<>>
       THEN HTTPException(404, "Profile not found")
       ELSE Returned("", <<ProfileResponse(profile.ret[1].id, profile.ret[1].name,
                                           profile.ret[1].username,
                                           profile.ret[1].email,
                                           profile.ret[1].bio)>>)

(***************************************************************************)
(* Posts and their POSTED relationship are written by another layer: a     *)
(* Post node with a fresh id, posted by exactly one existing User node.    *)
(***************************************************************************)
external_post(author, createdAt) ==
    /\ Len(posts) < MaxPosts
    /\ author \in DOMAIN nodes
    /\ posts' = Append(posts, [id |-> Len(posts) + 1, content |-> "text",
                               createdAt |-> createdAt, author |-> author])
    /\ last' = Call("external_post", "", "", NoArgs, "", <<>>)
    /\ UNCHANGED <<nodes, follows>>

(***************************************************************************)
(* get_feed_posts: MATCH (me {id})-[:FOLLOWS]->(followed)-[:POSTED]->(post)*)
(* RETURN post, followed ORDER BY post.createdAt DESC.  Rows with equal    *)
(* createdAt may come in any order, so the call has a set of possible      *)
(* results.                                                                *)
(***************************************************************************)
(* The POSTED hop taken from me in place of followed. *)
FeedRows_OwnPosts(user_id) ==
    {<<r, p>> \in FollowsRows(MatchUser(user_id), DOMAIN nodes) \X DOMAIN posts :
        posts[p].author = r[1]}

FeedRows(user_id) ==
    {<<r, p>> \in FollowsRows(MatchUser(user_id), DOMAIN nodes) \X DOMAIN posts :
        posts[p].author = r[2]}

(* ORDER BY post.createdAt without DESC. *)
OrderFirst_Ascending(rows) ==
    {r \in rows : \A q \in rows :
        ~StrLess(posts[q[2]].createdAt, posts[r[2]].createdAt)}

OrderFirst(rows) ==
    {r \in rows : \A q \in rows :
        ~StrLess(posts[r[2]].createdAt, posts[q[2]].createdAt)}

RECURSIVE OrderByCreatedAtDesc(_)
OrderByCreatedAtDesc(rows) ==
    IF rows = {} THEN {<<>>}
    ELSE UNION {{<<r>> \o s : s \in OrderByCreatedAtDesc(rows \ {r})} :
                  r \in OrderFirst(rows)}

FeedItem(row) ==
    LET post == posts[row[2]]
        followed == nodes[row[1][2]]
    IN FeedPost(post.id, post.content, post.createdAt,
                FeedPostAuthor(followed.id, followed.name, followed.username))

get_feed_posts(user_id) ==
    {[i \in DOMAIN s |-> FeedItem(s[i])] :
        s \in OrderByCreatedAtDesc(FeedRows(user_id))}

(***************************************************************************)
(* A caller of the two-step profile update: where it stands, the request   *)
(* it carries, what its availability check answered, whether the other     *)
(* caller stood between check and write when this one wrote, and what the  *)
(* write raised.                                                           *)
(***************************************************************************)
Request(pc, user_id, username, available, raced, raised) ==
    [pc |-> pc, user_id |-> user_id, username |-> username,
     available |-> available, raced |-> raced, raised |-> raised]

Idle == Request("idle", "", <<>>, FALSE, FALSE, "")

Init ==
    /\ nodes = <<>>
    /\ follows = [e \in NodeIdx \X NodeIdx |-> 0]
    /\ posts = <<>>
    /\ last = Call("init", "", "", NoArgs, "", <<>>)
    /\ calls = [c \in Callers |-> Idle]

(***************************************************************************)
(* Spec: users sign up with fixed profiles and follow and unfollow each    *)
(* other, in any order and with any ids.                                   *)
(***************************************************************************)
GraphProfiles ==
    {UserProfile("u1", "n1", <<"a", "b">>, "e1", "", "avatar_1"),
     UserProfile("u2", "n2", <<"b", "_">>, "e2", "", "avatar_1"),
     UserProfile("u3", "n3", <<"A", "B">>, "e1", "", "avatar_1")}

CreateUser == \E p \in GraphProfiles : create_user(p) /\ UNCHANGED calls

FollowUser == \E a \in Ids, b \in Ids : follow_user(a, b) /\ UNCHANGED calls

UnfollowUser == \E a \in Ids, b \in Ids : unfollow_user(a, b) /\ UNCHANGED calls

Next == CreateUser \/ FollowUser \/ UnfollowUser

Spec == Init /\ [][Next]_vars

(***************************************************************************)
(* SpecFeed: the feed of one reader, u1, who follows and unfollows while   *)
(* posts are written, and profile updates arrive for ids no user has.      *)
(***************************************************************************)
Reader == "u1"

ReaderFollows == \E b \in Ids : follow_user(Reader, b) /\ UNCHANGED calls

ReaderUnfollows == \E b \in Ids : unfollow_user(Reader, b) /\ UNCHANGED calls

ExternalPost ==
    \E i \in NodeIdx, t \in Timestamps : external_post(i, t) /\ UNCHANGED calls

UpdateMissing ==
    \E id \in Ids \cup {NoSuchId} :
        /\ MatchUser(id) = {}
        /\ update_user(id, "n2", <<"A", "B">>, "bio", "avatar_2")
        /\ UNCHANGED calls

NextFeed ==
    CreateUser \/ ReaderFollows \/ ReaderUnfollows \/ ExternalPost \/ UpdateMissing

SpecFeed == Init /\ [][NextFeed]_vars

(***************************************************************************)
(* SpecUsers: profiles are created and updated with any field values.      *)
(***************************************************************************)
Details == {<<"n1", "", "avatar_1">>, <<"n2", "bio", "avatar_2">>}

EmailOf(id) == IF id = "u2" THEN "e2" ELSE "e1"

Profiles ==
    {UserProfile(id, "n1", u, EmailOf(id), "", "avatar_1") :
        id \in Ids, u \in Usernames}

CreateAny == \E p \in Profiles : create_user(p) /\ UNCHANGED calls

UpdateAny ==
    \E id \in Ids, u \in Usernames, d \in Details :
        update_user(id, d[1], u, d[2], d[3]) /\ UNCHANGED calls

NextUsers == CreateAny \/ UpdateAny

SpecUsers == Init /\ [][NextUsers]_vars

(***************************************************************************)
(* SpecChecked: callers that keep the documented discipline.  A profile is *)
(* created only when is_username_available has just answered true, and     *)
(* updated only when is_username_available_for_user has just answered      *)
(* true, check and write being one step.                                   *)
(***************************************************************************)
SignUp ==
    \E p \in Profiles :
        /\ is_username_available(p.username)
        /\ create_user(p)
        /\ UNCHANGED calls

EditProfile ==
    \E id \in Ids, u \in Usernames, d \in Details :
        /\ is_username_available_for_user(u, id)
        /\ update_user(id, d[1], u, d[2], d[3])
        /\ UNCHANGED calls

NextChecked == SignUp \/ EditProfile

SpecChecked == Init /\ [][NextChecked]_vars

(***************************************************************************)
(* SpecRace: the same discipline with the check and the write of a profile *)
(* update as two steps, taken by two callers that may interleave.  Each    *)
(* caller runs one request.                                                *)
(***************************************************************************)
OtherChecked(c) ==
    \E d \in Callers \ {c} : calls[d].pc = "checked" /\ calls[d].available

RaceUsernames == {<<"a", "b">>, <<"A", "B">>}

CheckStep(c) ==
    \E id \in Ids, u \in RaceUsernames :
        /\ calls[c].pc = "idle"
        /\ calls' = [calls EXCEPT ![c] =
                       Request("checked", id, u,
                               is_username_available_for_user(u, id), FALSE, "")]
        /\ UNCHANGED <<nodes, follows, posts, last>>

WriteStep(c) ==
    /\ calls[c].pc = "checked"
    /\ calls[c].available
    /\ update_user(calls[c].user_id, "n2", calls[c].username, "bio", "avatar_2")
    /\ calls' = [calls EXCEPT ![c] =
                   Request("written", calls[c].user_id, calls[c].username, TRUE,
                           OtherChecked(c), last'.raised)]

RejectStep(c) ==
    /\ calls[c].pc = "checked"
    /\ ~calls[c].available
    /\ calls' = [calls EXCEPT ![c] = Idle]
    /\ UNCHANGED <<nodes, follows, posts, last>>

Check == \E c \in Callers : CheckStep(c)

Write == \E c \in Callers : WriteStep(c)

Reject == \E c \in Callers : RejectStep(c)

NextRace == SignUp \/ Check \/ Write \/ Reject

SpecRace == Init /\ [][NextRace]_vars

(***************************************************************************)
(* SpecStore: every operation that writes, on two users.  The users sign   *)
(* up, edit their profiles, follow and unfollow each other and post; calls *)
(* also name u3, the id of no user.                                        *)
(***************************************************************************)
StoreProfiles == {p \in GraphProfiles : p.id # "u3"}

StoreCreate == \E p \in StoreProfiles : create_user(p) /\ UNCHANGED calls

StoreUpdate ==
    \E id \in Ids :
        /\ update_user(id, "n3", <<"a", "_">>, "bio", "avatar_2")
        /\ UNCHANGED calls

StorePost == \E i \in NodeIdx : external_post(i, <<2>>) /\ UNCHANGED calls

NextStore ==
    StoreCreate \/ StoreUpdate \/ FollowUser \/ UnfollowUser \/ StorePost

SpecStore == Init /\ [][NextStore]_vars

(***************************************************************************)
(* SpecProfile: users sign up and edit their profiles, and profiles are    *)
(* requested over the route, for ids of users and of no user, from a store *)
(* that answers or fails.  A request writes nothing; the latest call keeps *)
(* what get_user_by_id gave the route and what the route answered.         *)
(***************************************************************************)
GetProfile ==
    \E user_id \in Ids \cup {NoSuchId}, store_raised \in StoreOutcomes :
        LET response == get_profile(user_id, store_raised)
        IN /\ last' = Call("get_profile", user_id, "",
                           <<await_get_user_by_id(user_id, store_raised)>>,
                           response.raised, response.ret)
           /\ UNCHANGED <<nodes, follows, posts, calls>>

NextProfile == CreateUser \/ StoreUpdate \/ GetProfile

SpecProfile == Init /\ [][NextProfile]_vars

(***************************************************************************)
(* Two strings are equal under case-folding when they have the same length *)
(* and, place by place, the same letter whatever its case.                 *)
(***************************************************************************)
SameLetter(c, d) ==
    \/ c = d
    \/ {c, d} = {"a", "A"}
    \/ {c, d} = {"b", "B"}

SameUnderFolding(a, b) ==
    /\ Len(a) = Len(b)
    /\ \A i \in DOMAIN a : SameLetter(a[i], b[i])

DuplicateUsername ==
    \E i \in DOMAIN nodes, j \in DOMAIN nodes :
        i # j /\ SameUnderFolding(nodes[i].username, nodes[j].username)

(***************************************************************************)
(* C1.  When every create_user directly follows an is_username_available   *)
(* that answered true and every update_user directly follows an            *)
(* is_username_available_for_user that answered true, no two distinct User *)
(* nodes ever hold usernames that are equal under case-folding.            *)
(***************************************************************************)
C1_UsernamesUnique == ~DuplicateUsername

(* Two users exist and the latest step was a checked update that returned, *)
(* having set "AB" while another user holds "b_".                          *)
C1_Witness ==
    /\ Len(nodes) >= 2
    /\ last.op = "update_user"
    /\ last.raised = ""
    /\ last.args[2] = <<"A", "B">>
    /\ \E i \in DOMAIN nodes : nodes[i].username = <<"b", "_">>

(***************************************************************************)
(* C2.  With check and write as two steps, whenever two callers with       *)
(* different user ids and usernames equal under case-folding have both     *)
(* been answered "available" before either wrote, and both writes have     *)
(* returned, two distinct users hold usernames equal under case-folding.   *)
(***************************************************************************)
Raced(c, d) ==
    /\ c # d
    /\ calls[c].pc = "written" /\ calls[d].pc = "written"
    /\ calls[c].raced
    /\ calls[c].raised = "" /\ calls[d].raised = ""
    /\ calls[c].user_id # calls[d].user_id
    /\ SameUnderFolding(calls[c].username, calls[d].username)

C2_RaceLeavesDuplicate ==
    \A c \in Callers, d \in Callers : Raced(c, d) => DuplicateUsername

(* Both callers passed the check before either wrote, both wrote, and the  *)
(* two users now hold "ab" and "AB".                                       *)
C2_Witness ==
    /\ \E c \in Callers, d \in Callers : Raced(c, d)
    /\ \E i \in DOMAIN nodes, j \in DOMAIN nodes :
         /\ nodes[i].id # nodes[j].id
         /\ nodes[i].username = <<"a", "b">>
         /\ nodes[j].username = <<"A", "B">>

(***************************************************************************)
(* Reading a listing: the ids of the users it returns, and how often a     *)
(* user with a given id is returned.                                       *)
(***************************************************************************)
IdsIn(listing) == {profile.id : profile \in DOMAIN listing}

Exists(id) == MatchUser(id) # {}

EdgesBetween(a, b) ==
    Cardinality(FollowsRows(MatchUser(a), MatchUser(b)))

(***************************************************************************)
(* C3.  For all users user1 and user2, get_mutual_connections returns, and *)
(* what it returns is exactly the users that are both in                   *)
(* get_following(user1) and in get_following(user2).                       *)
(***************************************************************************)
C3_MutualIsIntersection ==
    \A user1 \in Ids, user2 \in Ids :
        (Exists(user1) /\ Exists(user2)) =>
            LET mutual == get_mutual_connections(user1, user2)
            IN /\ mutual.raised = ""
               /\ IdsIn(mutual.ret) =
                    IdsIn(get_following(user1).ret) \cap IdsIn(get_following(user2).ret)

(***************************************************************************)
(* C4.  Between existing users there is never more than one FOLLOWS edge   *)
(* per ordered pair; follow_user(a,b) directly after follow_user(a,b)      *)
(* leaves exactly one a->b edge and the store as the first call left it;   *)
(* unfollow_user(a,b) with no a->b edge returns and leaves the store       *)
(* unchanged.                                                              *)
(***************************************************************************)
AtMostOneEdge == \A a \in Ids, b \in Ids : EdgesBetween(a, b) <= 1

FollowTwice ==
    (/\ last.op = "follow_user" /\ last'.op = "follow_user"
     /\ last'.user_id = last.user_id /\ last'.target_id = last.target_id
     /\ Exists(last.user_id) /\ Exists(last.target_id))
    => /\ store' = store
       /\ last'.raised = ""
       /\ EdgesBetween(last.user_id, last.target_id)' = 1

UnfollowNothing ==
    (/\ last'.op = "unfollow_user"
     /\ Exists(last'.user_id) /\ Exists(last'.target_id)
     /\ EdgesBetween(last'.user_id, last'.target_id) = 0)
    => /\ store' = store
       /\ last'.raised = ""

C4_FollowIdempotent ==
    /\ []AtMostOneEdge
    /\ [][FollowTwice /\ UnfollowNothing]_vars

(* u1 follows u2 by exactly one edge, and the latest call, which returned, *)
(* was follow_user(u1, u2).                                                *)
C4_Witness ==
    /\ last.op = "follow_user" /\ last.user_id = "u1" /\ last.target_id = "u2"
    /\ last.raised = ""
    /\ EdgesBetween("u1", "u2") = 1

(***************************************************************************)
(* C5.  Directly after follow_user(a,b) between existing users,            *)
(* get_following(a) contains b; directly after unfollow_user(a,b) it does  *)
(* not, whatever went before.                                              *)
(***************************************************************************)
C5_FollowingTracksEdge ==
    /\ (last.op = "follow_user" /\ Exists(last.user_id) /\ Exists(last.target_id))
         => /\ get_following(last.user_id).raised = ""
            /\ last.target_id \in IdsIn(get_following(last.user_id).ret)
    /\ (last.op = "unfollow_user" /\ Exists(last.user_id) /\ Exists(last.target_id))
         => /\ get_following(last.user_id).raised = ""
            /\ last.target_id \notin IdsIn(get_following(last.user_id).ret)

(* The latest call was unfollow_user(u1, u2) between existing users, u1    *)
(* still follows itself and u2 still follows u1.                           *)
C5_Witness ==
    /\ last.op = "unfollow_user" /\ last.user_id = "u1" /\ last.target_id = "u2"
    /\ Exists("u1") /\ Exists("u2")
    /\ IdsIn(get_following("u1").ret) = {"u1"}
    /\ "u1" \in IdsIn(get_following("u2").ret)

(***************************************************************************)
(* C6.  Whoever asks, every possible result of get_feed_posts holds each   *)
(* post whose author is in get_following of the asker exactly once, holds  *)
(* no other post, and gives each post with the id, name and username of    *)
(* its author.                                                             *)
(***************************************************************************)
AuthorOf(p) == nodes[posts[p].author]

Followed(user_id, p) == AuthorOf(p).id \in IdsIn(get_following(user_id).ret)

Places(feed, p) == {i \in DOMAIN feed : feed[i].id = posts[p].id}

C6_FeedIsPostsOfFollowing ==
    \A user_id \in Ids \cup {NoSuchId} :
        \A feed \in get_feed_posts(user_id) :
            /\ \A p \in DOMAIN posts :
                 Cardinality(Places(feed, p)) = IF Followed(user_id, p) THEN 1 ELSE 0
            /\ \A i \in DOMAIN feed :
                 \E p \in DOMAIN posts :
                    /\ feed[i].id = posts[p].id
                    /\ feed[i].content = posts[p].content
                    /\ feed[i].createdAt = posts[p].createdAt
                    /\ feed[i].author =
                         [id |-> AuthorOf(p).id, name |-> AuthorOf(p).name,
                          username |-> AuthorOf(p).username]

(* The reader follows itself and u2, both have posted, and the feed holds  *)
(* the two posts under their two authors.                                  *)
C6_Witness ==
    \E feed \in get_feed_posts(Reader) :
        /\ Len(feed) = 2
        /\ {feed[1].author.id, feed[2].author.id} = {"u1", "u2"}

(***************************************************************************)
(* C7.  Every possible result of get_feed_posts is newest first: of two    *)
(* consecutive items the first has a createdAt no smaller than the second. *)
(***************************************************************************)
C7_FeedNewestFirst ==
    \A user_id \in Ids \cup {NoSuchId} :
        \A feed \in get_feed_posts(user_id) :
            \A i \in DOMAIN feed :
                (i + 1 \in DOMAIN feed) =>
                    ~StrLess(feed[i].createdAt, feed[i + 1].createdAt)

(* u1 follows u2, u2 posted P1 at "12" and then P2 at "2", and the feed of *)
(* u1 is P2, P1.                                                           *)
C7_Witness ==
    /\ Len(posts) = 2
    /\ AuthorOf(1).id = "u2" /\ AuthorOf(2).id = "u2"
    /\ posts[1].createdAt = <<1, 2>> /\ posts[2].createdAt = <<2>>
    /\ \E feed \in get_feed_posts(Reader) :
         Len(feed) = 2 /\ feed[1].id = posts[2].id /\ feed[2].id = posts[1].id

(***************************************************************************)
(* C8.  update_user for a user_id no User carries raises ValueError, the   *)
(* service's "user not found", and changes no user, edge or post; no User  *)
(* comes to carry the id.                                                  *)
(***************************************************************************)
UpdateOfMissing ==
    (last'.op = "update_user" /\ ~Exists(last'.user_id))
    => /\ last'.raised = "ValueError"
       /\ last'.ret = <<>>
       /\ store' = store

C8_UpdateMissingRaises ==
    /\ [](last.op = "update_user" /\ last.raised = "ValueError"
            => ~Exists(last.user_id))
    /\ [][UpdateOfMissing]_vars

(* update_user has just raised for the unknown id while the graph holds    *)
(* two users, an edge and a post.                                          *)
C8_Witness ==
    /\ last.op = "update_user" /\ last.user_id = NoSuchId
    /\ last.raised = "ValueError"
    /\ Len(nodes) = 2 /\ Len(posts) >= 1
    /\ \E a \in Ids, b \in Ids : EdgesBetween(a, b) = 1

(***************************************************************************)
(* C9.  update_user for the id of an existing user returns; the record it  *)
(* returns has the id and the email the user had before the call and the   *)
(* name, username, bio and avatar given to the call; and get_user_by_id of *)
(* that id directly afterwards returns the same record.                    *)
(***************************************************************************)
UpdateOfExisting ==
    (last'.op = "update_user" /\ Exists(last'.user_id))
    => /\ last'.raised = ""
       /\ Len(last'.ret) = 1
       /\ \E i \in MatchUser(last'.user_id) :
            /\ last'.ret[1].id = nodes[i].id
            /\ last'.ret[1].email = nodes[i].email

UpdateReturned ==
    (last.op = "update_user" /\ last.raised = "")
    => /\ last.ret[1].id = last.user_id
       /\ last.ret[1].name = last.args[1]
       /\ last.ret[1].username = last.args[2]
       /\ last.ret[1].bio = last.args[3]
       /\ last.ret[1].avatar = last.args[4]
       /\ get_user_by_id(last.user_id) = Returned("", last.ret)

C9_UpdateReturnsRecord ==
    /\ []UpdateReturned
    /\ [][UpdateOfExisting]_vars

(* update_user has just given u2, created as "n1" with the default bio and *)
(* avatar, a new name, username, bio and avatar, and returned u2's email.  *)
C9_Witness ==
    /\ last.op = "update_user" /\ last.user_id = "u2" /\ last.raised = ""
    /\ last.args = <<"n2", <<"A", "B">>, "bio", "avatar_2">>
    /\ last.ret[1].email = "e2"
    /\ Len(nodes) = 2

(***************************************************************************)
(* C10.  is_username_available(U) is true whenever no user has a username  *)
(* equal to U under case-folding, and directly after a create_user that    *)
(* stored username U it is false for U and for every string equal to U     *)
(* under case-folding.                                                     *)
(***************************************************************************)
Taken(username) ==
    \E i \in DOMAIN nodes : SameUnderFolding(nodes[i].username, username)

C10_AvailabilityTracksCreate ==
    /\ \A u \in Usernames : ~Taken(u) => is_username_available(u)
    /\ (last.op = "create_user" /\ last.raised = "")
         => \A u \in Usernames :
               SameUnderFolding(u, last.args[1].username)
                  => ~is_username_available(u)

(* create_user has just stored "ab": "ab" and "AB" are taken, "b_" is      *)
(* still available.                                                        *)
C10_Witness ==
    /\ last.op = "create_user" /\ last.raised = ""
    /\ last.args[1].username = <<"a", "b">>
    /\ ~is_username_available(<<"a", "b">>)
    /\ ~is_username_available(<<"A", "B">>)
    /\ is_username_available(<<"b", "_">>)

(***************************************************************************)
(* C11.  is_username_available_for_user(U, id) is true when id is the user *)
(* who owns username U and no other user has a username equal to U under   *)
(* case-folding; and for every id that owns no username equal to U under   *)
(* case-folding it answers as is_username_available(U) does.               *)
(***************************************************************************)
Owns(id, username) ==
    \E i \in MatchUser(id) : nodes[i].username = username

OwnsFolded(id, username) ==
    \E i \in MatchUser(id) : SameUnderFolding(nodes[i].username, username)

TakenByOther(id, username) ==
    \E i \in DOMAIN nodes :
        /\ nodes[i].id # id
        /\ SameUnderFolding(nodes[i].username, username)

C11_SelfExclusion ==
    \A u \in Usernames, id \in Ids \cup {NoSuchId} :
        /\ (Owns(id, u) /\ ~TakenByOther(id, u))
              => is_username_available_for_user(u, id)
        /\ ~OwnsFolded(id, u)
              => (is_username_available_for_user(u, id) = is_username_available(u))

(* u1 owns "ab" alone: the name is free for u1, taken for u2 and for an id *)
(* of no user, as it is for is_username_available; "b_" is free for all.   *)
C11_Witness ==
    /\ Owns("u1", <<"a", "b">>) /\ ~TakenByOther("u1", <<"a", "b">>)
    /\ Exists("u2")
    /\ is_username_available_for_user(<<"a", "b">>, "u1")
    /\ ~is_username_available(<<"a", "b">>)
    /\ ~is_username_available_for_user(<<"A", "B">>, "u2")
    /\ ~is_username_available_for_user(<<"a", "b">>, NoSuchId)
    /\ ~OwnsFolded("u2", <<"b", "_">>)
    /\ is_username_available_for_user(<<"b", "_">>, "u2")

(***************************************************************************)
(* C12.  For any population of users, get_all_users_except(u) returns      *)
(* every user whose id differs from u exactly once, never includes u, and  *)
(* the returned list is sorted ascending by username.                      *)
(***************************************************************************)
PlacesOf(listing, i) == {k \in DOMAIN listing : listing[k].id = nodes[i].id}

SortedByUsername(listing) ==
    \A k \in DOMAIN listing : \A m \in DOMAIN listing :
        k < m => ~UsernameLess(listing[m].username, listing[k].username)

C12_AllUsersExcept ==
    \A u \in Ids \cup {NoSuchId} : \A listing \in get_all_users_except(u) :
        /\ \A i \in DOMAIN nodes :
              /\ nodes[i].id # u
                   => /\ Cardinality(PlacesOf(listing, i)) = 1
                      /\ \A k \in PlacesOf(listing, i) : listing[k] = Profile(i)
              /\ nodes[i].id = u => PlacesOf(listing, i) = {}
        /\ \A k \in DOMAIN listing : listing[k].id # u /\ Exists(listing[k].id)
        /\ SortedByUsername(listing)

(* u2 was created before u1 and "AB" sorts before "b_": the listing for u3 *)
(* is u1 then u2, against the order of creation, and the listing for u1 is *)
(* u2 alone.                                                               *)
C12_Witness ==
    /\ Len(nodes) = 2
    /\ nodes[1].id = "u2" /\ nodes[1].username = <<"b", "_">>
    /\ nodes[2].id = "u1" /\ nodes[2].username = <<"A", "B">>
    /\ get_all_users_except("u3") = {<<Profile(2), Profile(1)>>}
    /\ get_all_users_except("u1") = {<<Profile(1)>>}

(***************************************************************************)
(* C13.  follow_user(user_id, target_id) where user_id or target_id, or    *)
(* both, is the id of no User returns without error, creates no FOLLOWS    *)
(* edge and no User node, and leaves the store unchanged.                  *)
(***************************************************************************)
FollowOfMissing ==
    /\ last'.op = "follow_user"
    /\ ~Exists(last'.user_id) \/ ~Exists(last'.target_id)

C13_FollowMissingNoOp ==
    [][FollowOfMissing => (last'.raised = "" /\ store' = store)]_vars

(* The latest call was follow_user(u1, u3) with u1 a user, u3 not, and the *)
(* store holding two users and the edge u1->u2 from before: the call       *)
(* returned, no third node exists and no edge leaves u1 but the one to u2. *)
C13_Witness ==
    /\ last.op = "follow_user" /\ last.user_id = "u1" /\ last.target_id = "u3"
    /\ last.raised = ""
    /\ Exists("u1") /\ Exists("u2") /\ ~Exists("u3")
    /\ Len(nodes) = 2
    /\ EdgesBetween("u1", "u2") = 1
    /\ \A e \in DOMAIN follows :
          follows[e] > 0 => (nodes[e[1]].id = "u1" /\ nodes[e[2]].id = "u2")

(***************************************************************************)
(* C14.  Absence is a normal value, never a failure: get_user_by_id of an  *)
(* id with no User returns the absent value without raising, and           *)
(* get_following, get_followers and get_feed_posts for an id with no User, *)
(* or with no matching edges, return an empty list without raising.        *)
(***************************************************************************)
Absent == Returned("", <<>>)

EmptyListing(result) == result.raised = "" /\ DOMAIN result.ret = {}

EmptyFeed == {<<>>}

FollowsNobody(id) == \A b \in Ids : EdgesBetween(id, b) = 0

FollowedByNobody(id) == \A a \in Ids : EdgesBetween(a, id) = 0

C14_AbsenceIsNormal ==
    \A id \in Ids \cup {NoSuchId} :
        /\ ~Exists(id) => get_user_by_id(id) = Absent
        /\ (~Exists(id) \/ FollowsNobody(id))
              => /\ EmptyListing(get_following(id))
                 /\ get_feed_posts(id) = EmptyFeed
        /\ (~Exists(id) \/ FollowedByNobody(id))
              => EmptyListing(get_followers(id))
        /\ FeedRows(id) = {} => get_feed_posts(id) = EmptyFeed

(* The store holds u1, u2, the edge u1->u2 and a post of u2, so u1 has a   *)
(* feed and u2 a follower; u3 and u9 are ids of no user and get the absent *)
(* value and empty lists; u2 follows nobody and gets empty lists; u1 has   *)
(* no follower.                                                            *)
C14_Witness ==
    /\ Exists("u1") /\ Exists("u2") /\ ~Exists("u3") /\ ~Exists(NoSuchId)
    /\ EdgesBetween("u1", "u2") = 1
    /\ get_feed_posts("u1") # EmptyFeed
    /\ ~EmptyListing(get_followers("u2"))
    /\ get_user_by_id(NoSuchId) = Absent /\ get_user_by_id("u3") = Absent
    /\ EmptyListing(get_following("u3")) /\ EmptyListing(get_followers(NoSuchId))
    /\ get_feed_posts("u3") = EmptyFeed
    /\ EmptyListing(get_following("u2")) /\ get_feed_posts("u2") = EmptyFeed
    /\ EmptyListing(get_followers("u1"))

(***************************************************************************)
(* C15.  create_user with a profile whose id is the id of an existing User *)
(* fails with the store's error and leaves the store unchanged, so that in *)
(* every reachable state at most one User node exists per id.              *)
(***************************************************************************)
OneNodePerId == \A id \in Ids : Cardinality(MatchUser(id)) <= 1

CreateOfExisting == last'.op = "create_user" /\ Exists(last'.user_id)

C15_DuplicateIdRejected ==
    /\ []OneNodePerId
    /\ [][CreateOfExisting => (last'.raised = "ConstraintError" /\ store' = store)]_vars

(* create_user for u1 has just failed: u1 is held by one node, whose       *)
(* fields are not those of the rejected profile, and u2 exists beside it.  *)
C15_Witness ==
    /\ last.op = "create_user" /\ last.user_id = "u1"
    /\ last.raised = "ConstraintError"
    /\ Cardinality(MatchUser("u1")) = 1
    /\ \A i \in MatchUser("u1") : Profile(i) # last.args[1]
    /\ Exists("u2")

(***************************************************************************)
(* C16.  A User once created is never deleted and its id and email never   *)
(* change: only update_user changes a User's fields, and it changes only   *)
(* name, username, bio and avatar of the user with the given id and of no  *)
(* other user.                                                             *)
(***************************************************************************)
UsersKept ==
    \A i \in DOMAIN nodes :
        /\ i \in DOMAIN nodes'
        /\ nodes'[i].id = nodes[i].id
        /\ nodes'[i].email = nodes[i].email

OnlyUpdateChanges ==
    \A i \in DOMAIN nodes :
        nodes'[i] # nodes[i]
           => /\ last'.op = "update_user" /\ last'.raised = ""
              /\ nodes[i].id = last'.user_id

C16_UsersImmutableButByUpdate == [][UsersKept /\ OnlyUpdateChanges]_vars

(* update_user has just rewritten u1 beside u2: u1 has the new name,       *)
(* username, bio and avatar and its email, u2 is as it was created, and    *)
(* edges and posts are in the store.                                       *)
C16_Witness ==
    /\ last.op = "update_user" /\ last.user_id = "u1" /\ last.raised = ""
    /\ Len(nodes) = 2 /\ Len(posts) >= 1
    /\ EdgesBetween("u2", "u1") = 1
    /\ \A i \in MatchUser("u1") :
          nodes[i] = UserProfile("u1", "n3", <<"a", "_">>, "e1", "bio", "avatar_2")
    /\ \A i \in MatchUser("u2") :
          nodes[i] = UserProfile("u2", "n2", <<"b", "_">>, "e2", "", "avatar_1")

(***************************************************************************)
(* C17.  For all users a and b, b is in get_following(a) if and only if a  *)
(* is in get_followers(b); directly after follow_user(a, b) between        *)
(* existing users get_followers(b) returns a, once.                        *)
(***************************************************************************)
TimesIn(listing, id) ==
    LET hits == {profile \in DOMAIN listing : profile.id = id}
    IN IF hits = {} THEN 0 ELSE listing[CHOOSE profile \in hits : TRUE]

C17_FollowersMirrorFollowing ==
    /\ \A a \in Ids, b \in Ids :
          /\ get_following(a).raised = "" /\ get_followers(b).raised = ""
          /\ (b \in IdsIn(get_following(a).ret)) <=> (a \in IdsIn(get_followers(b).ret))
    /\ (last.op = "follow_user" /\ Exists(last.user_id) /\ Exists(last.target_id))
          => TimesIn(get_followers(last.target_id).ret, last.user_id) = 1

(* u1 has just followed u2 and no other edge exists: get_followers(u2) is  *)
(* u1 alone, get_following(u1) is u2 alone, and nobody follows u1.         *)
C17_Witness ==
    /\ last.op = "follow_user" /\ last.user_id = "u1" /\ last.target_id = "u2"
    /\ EdgesBetween("u1", "u2") = 1 /\ EdgesBetween("u2", "u1") = 0
    /\ EdgesBetween("u1", "u1") = 0 /\ EdgesBetween("u2", "u2") = 0
    /\ IdsIn(get_followers("u2").ret) = {"u1"}
    /\ TimesIn(get_followers("u2").ret, "u1") = 1
    /\ IdsIn(get_following("u1").ret) = {"u2"}
    /\ IdsIn(get_followers("u1").ret) = {}

(***************************************************************************)
(* C18.  get_feed_posts is deterministic: for the same store state it      *)
(* always returns the same sequence, posts with equal createdAt being      *)
(* ordered by a stable secondary key such as the post id.                  *)
(***************************************************************************)
C18_FeedDeterministic ==
    \A id \in Ids :
        /\ Cardinality(get_feed_posts(id)) = 1
        /\ \A feed \in get_feed_posts(id) :
              \A i \in DOMAIN feed : \A j \in DOMAIN feed :
                  (i < j /\ feed[i].createdAt = feed[j].createdAt)
                     => feed[i].id < feed[j].id

(***************************************************************************)
(* C19.  follow_user(a,b) and unfollow_user(a,b) change nothing except the *)
(* presence of the single directed edge a->b: the reverse edge b->a, every *)
(* other FOLLOWS edge, every User's fields and every Post with its POSTED  *)
(* edge are unchanged; so unfollow_user(a,b) removes nobody but a from     *)
(* get_followers(b), nobody from the followers of anyone else, and never   *)
(* makes b stop following a.                                               *)
(***************************************************************************)
EdgeStep == last'.op \in {"follow_user", "unfollow_user"}

OtherEdgesKept ==
    \A e \in DOMAIN follows :
        ~(e[1] \in MatchUser(last'.user_id) /\ e[2] \in MatchUser(last'.target_id))
           => follows'[e] = follows[e]

OtherFollowersKept ==
    \A d \in Ids :
        LET through == IF d = last'.target_id THEN {last'.user_id} ELSE {}
        IN IdsIn(get_followers(d).ret)' \ through
             = IdsIn(get_followers(d).ret) \ through

C19_EdgeStepFrame ==
    [][EdgeStep => /\ nodes' = nodes
                   /\ posts' = posts
                   /\ OtherEdgesKept
                   /\ OtherFollowersKept]_vars

(* unfollow_user(u1, u2) has just run in a store where u2 follows u1, u1   *)
(* follows itself and u2 has posted: the edge u1->u2 is gone, the reverse  *)
(* edge and the self-edge are there, and so are the post and both users.   *)
C19_Witness ==
    /\ last.op = "unfollow_user" /\ last.user_id = "u1" /\ last.target_id = "u2"
    /\ EdgesBetween("u1", "u2") = 0
    /\ EdgesBetween("u2", "u1") = 1
    /\ EdgesBetween("u1", "u1") = 1
    /\ "u2" \in IdsIn(get_followers("u1").ret)
    /\ Len(nodes) = 2
    /\ \E p \in DOMAIN posts : AuthorOf(p).id = "u2"

(***************************************************************************)
(* C20.  The get_profile call site keeps absence and store failure apart:  *)
(* it answers 404 exactly when get_user_by_id returned the absent value,   *)
(* 500 exactly when get_user_by_id raised, and otherwise returns the       *)
(* profile's id, name, username, email and bio as stored.                  *)
(***************************************************************************)
StatusOf(call) ==
    IF call.raised = "HTTPException" THEN call.ret[1].status_code ELSE 200

Stored(response, id) ==
    \E i \in MatchUser(id) :
        response = [id |-> nodes[i].id, name |-> nodes[i].name,
                    username |-> nodes[i].username, email |-> nodes[i].email,
                    bio |-> nodes[i].bio]

C20_AbsenceApartFromFailure ==
    last.op = "get_profile" =>
        LET profile == last.args[1]
        IN /\ (StatusOf(last) = 404) <=> (profile = Absent)
           /\ (StatusOf(last) = 500) <=> (profile.raised # "")
           /\ profile.raised = "" => ((profile = Absent) <=> ~Exists(last.user_id))
           /\ StatusOf(last) \notin {404, 500}
                 => /\ last.raised = ""
                    /\ Stored(last.ret[1], last.user_id)

(* The profile of u9, the id of no user, was requested from a store that   *)
(* answered and holds two users, one of them edited: get_user_by_id gave   *)
(* the absent value and the route answered 404.                            *)
C20_Witness ==
    /\ last.op = "get_profile" /\ last.user_id = NoSuchId
    /\ last.args[1] = Absent
    /\ StatusOf(last) = 404
    /\ Len(nodes) = 2
    /\ \E i \in DOMAIN nodes : nodes[i].bio = "bio"

====
